---- MODULE Spec2Model ----
(***************************************************************************)
(* Model of the GLSCLP listing engine: the eBay title builder              *)
(* (src/src/title_builder.py) and the item-specifics deriver               *)
(* (src/src/pipeline.py).                                                  *)
(*                                                                         *)
(* A Python str is a sequence of one-character strings, so that lengths,   *)
(* whitespace, letter case and digits are what the code sees.  A Python    *)
(* value is a record with a type tag.                                      *)
(***************************************************************************)
EXTENDS Integers, Sequences, FiniteSets, TLC

\* ------------------------------------------------------------ characters

\* The whitespace characters of the model (str.strip, re \s).
WS == {" ", "\t"}

AsciiDigits == <<"0", "1", "2", "3", "4", "5", "6", "7", "8", "9">>

\* "sup2" stands for U+00B2 (superscript two): str.isdigit() accepts it,
\* re \d and int() do not.
SupTwo == "sup2"

UpperLetters == <<"A", "B", "C", "D", "E", "F", "G", "H", "I", "J", "K", "L", "M",
                  "N", "O", "P", "Q", "R", "S", "T", "U", "V", "W", "X", "Y", "Z">>

LowerLetters == <<"a", "b", "c", "d", "e", "f", "g", "h", "i", "j", "k", "l", "m",
                  "n", "o", "p", "q", "r", "s", "t", "u", "v", "w", "x", "y", "z">>

Range(f) == {f[i] : i \in DOMAIN f}

\* re \d
IsDecimal(c) == c \in Range(AsciiDigits)

\* str.isdigit() on one character
IsDigitChar(c) == IsDecimal(c) \/ c = SupTwo

\* re \w (what \b is defined by)
IsWordChar(c) == IsDecimal(c) \/ c \in Range(UpperLetters) \/ c \in Range(LowerLetters) \/ c = "_"

DigitValue(c) == (CHOOSE i \in DOMAIN AsciiDigits : AsciiDigits[i] = c) - 1

LowerChar(c) ==
    IF c \in Range(UpperLetters)
    THEN LowerLetters[CHOOSE i \in DOMAIN UpperLetters : UpperLetters[i] = c]
    ELSE c

\* ------------------------------------------------------------ str methods

\* str.lower()
Lower(s) == [i \in DOMAIN s |-> LowerChar(s[i])]

RECURSIVE LStrip(_)
LStrip(s) == IF s # <<>> /\ Head(s) \in WS THEN LStrip(Tail(s)) ELSE s

RECURSIVE RStrip(_)
RStrip(s) == IF s # <<>> /\ s[Len(s)] \in WS THEN RStrip(SubSeq(s, 1, Len(s) - 1)) ELSE s

\* str.strip()
Strip(s) == RStrip(LStrip(s))

\* re.sub(r"\s+", " ", s): every run of whitespace becomes one space. Each
\* character is marked with what replaces it and whether it stays: the first
\* character of a whitespace run stays, as a space, and the rest of the run goes.
Stays(x) == x.keep

CollapseWS(s) ==
    LET kept == SelectSeq([i \in DOMAIN s |->
                              [c |-> IF s[i] \in WS THEN " " ELSE s[i],
                               keep |-> s[i] \notin WS \/ i = 1 \/ s[i - 1] \notin WS]],
                          Stays)
    IN  [i \in DOMAIN kept |-> kept[i].c]

\* str.isdigit(): non-empty and every character a digit
IsDigitStr(s) == s # <<>> /\ \A i \in DOMAIN s : IsDigitChar(s[i])

\* int(s) succeeds on a (stripped) string of decimal digits
IntParses(s) == s # <<>> /\ \A i \in DOMAIN s : IsDecimal(s[i])

RECURSIVE ToInt(_)
ToInt(s) == IF s = <<>> THEN 0 ELSE 10 * ToInt(SubSeq(s, 1, Len(s) - 1)) + DigitValue(s[Len(s)])

\* str(n) for an int n >= 0
RECURSIVE IntToStr(_)
IntToStr(n) == IF n < 10 THEN <<AsciiDigits[n + 1]>> ELSE IntToStr(n \div 10) \o <<AsciiDigits[(n % 10) + 1]>>

\* " ".join(tokens)
RECURSIVE SpaceJoin(_)
SpaceJoin(tokens) ==
    IF tokens = <<>> THEN <<>>
    ELSE IF Len(tokens) = 1 THEN tokens[1]
    ELSE tokens[1] \o <<" ">> \o SpaceJoin(Tail(tokens))

\* ------------------------------------------------------------ Python values

NoneVal == [t |-> "none", b |-> FALSE, n |-> 0, s |-> <<>>, l |-> <<>>]
BoolVal(b) == [t |-> "bool", b |-> b, n |-> 0, s |-> <<>>, l |-> <<>>]
IntVal(n) == [t |-> "int", b |-> FALSE, n |-> n, s |-> <<>>, l |-> <<>>]
StrVal(s) == [t |-> "str", b |-> FALSE, n |-> 0, s |-> s, l |-> <<>>]
ListVal(l) == [t |-> "list", b |-> FALSE, n |-> 0, s |-> <<>>, l |-> l]

\* A key the dict does not hold.
Absent == [t |-> "absent", b |-> FALSE, n |-> 0, s |-> <<>>, l |-> <<>>]

\* Truth value of a Python value (what `or` and `if` test).
Truthy(v) ==
    CASE v.t = "bool" -> v.b
      [] v.t = "int" -> v.n # 0
      [] v.t = "str" -> v.s # <<>>
      [] v.t = "list" -> v.l # <<>>
      [] OTHER -> FALSE

\* a or b
Or(a, b) == IF Truthy(a) THEN a ELSE b

S_None == <<"N", "o", "n", "e">>
S_True == <<"T", "r", "u", "e">>
S_False == <<"F", "a", "l", "s", "e">>

\* repr of a list of strings holding no quote or backslash: ['a', 'b']
RECURSIVE ReprItems(_)
ReprItems(l) ==
    IF l = <<>> THEN <<>>
    ELSE <<"'">> \o l[1] \o <<"'">> \o (IF Len(l) = 1 THEN <<>> ELSE <<",", " ">> \o ReprItems(Tail(l)))

\* str(v)
PyStr(v) ==
    CASE v.t = "none" -> S_None
      [] v.t = "bool" -> (IF v.b THEN S_True ELSE S_False)
      [] v.t = "int" -> IntToStr(v.n)
      [] v.t = "str" -> v.s
      [] v.t = "list" -> <<"[">> \o ReprItems(v.l) \o <<"]">>

\* dict.get(k): None for a key the dict does not hold
Get(d, k) == IF d[k] = Absent THEN NoneVal ELSE d[k]

\* dict.get(k, default)
GetOr(d, k, default) == IF d[k] = Absent THEN default ELSE d[k]

\* ------------------------------------------------------------ normalisers

S_no == <<"n", "o">>
S_yes == <<"y", "e", "s">>
BlankWords == {<<"f", "a", "l", "s", "e">>, S_no, <<"n", "o", "n", "e">>,
               <<"n", "/", "a">>, <<"n", "a">>}

\* title_builder._clean
Clean(s) == CollapseWS(Strip(s))

RECURSIVE CleanNonEmpty(_)
CleanNonEmpty(tokens) ==
    IF tokens = <<>> THEN <<>>
    ELSE (IF Clean(tokens[1]) # <<>> THEN <<Clean(tokens[1])>> ELSE <<>>) \o CleanNonEmpty(Tail(tokens))

\* title_builder._join_tokens
JoinTokens(tokens) == Clean(SpaceJoin(CleanNonEmpty(tokens)))

\* title_builder._norm_optional and pipeline.norm_optional (the same body)
NormOptional(v) ==
    IF v.t # "str" THEN <<>>
    ELSE IF Lower(Strip(v.s)) \in BlankWords THEN <<>>
    ELSE Strip(v.s)

\* ------------------------------------------------------------ serial formatter

\* Optional[str]: None, or a str
NoneStr == [none |-> TRUE, s |-> <<>>]
SomeStr(s) == [none |-> FALSE, s |-> s]

\* \bof\b (re.IGNORECASE) matches at position i of s
OfAt(s, i) ==
    /\ i + 1 <= Len(s)
    /\ LowerChar(s[i]) = "o"
    /\ LowerChar(s[i + 1]) = "f"
    /\ (i = 1 \/ ~IsWordChar(s[i - 1]))
    /\ (i + 1 = Len(s) \/ ~IsWordChar(s[i + 2]))

\* The text from position i on, with no word rewritten
SubOfNothing(s, i) == SubSeq(s, i, Len(s))

\* re.sub(r"\bof\b", "/", s, flags=re.IGNORECASE), scanning from position i
RECURSIVE SubOf(_, _)
SubOf(s, i) ==
    IF i > Len(s) THEN <<>>
    ELSE IF OfAt(s, i) THEN <<"/">> \o SubOf(s, i + 2)
    ELSE <<s[i]>> \o SubOf(s, i + 1)

\* Last position of the run of \d characters that starts at i (i - 1 when s[i] is none)
RECURSIVE DigitRunEnd(_, _)
DigitRunEnd(s, i) == IF i <= Len(s) /\ IsDecimal(s[i]) THEN DigitRunEnd(s, i + 1) ELSE i - 1

\* First position at or after i that holds no whitespace (\s*)
RECURSIVE SkipWS(_, _)
SkipWS(s, i) == IF i <= Len(s) /\ s[i] \in WS THEN SkipWS(s, i + 1) ELSE i

\* /\s*(\d+) matches with its "/" at position j
DenomAt(s, j) ==
    /\ j <= Len(s)
    /\ s[j] = "/"
    /\ SkipWS(s, j + 1) <= Len(s)
    /\ IsDecimal(s[SkipWS(s, j + 1)])

\* The text of group (\d+) of a match whose "/" is at position j
DenomText(s, j) == SubSeq(s, SkipWS(s, j + 1), DigitRunEnd(s, SkipWS(s, j + 1)))

\* (\d+)\s*/\s*(\d+) matches starting at position i
FractionAt(s, i) ==
    /\ IsDecimal(s[i])
    /\ DenomAt(s, SkipWS(s, DigitRunEnd(s, i) + 1))

Min(S) == CHOOSE x \in S : \A y \in S : x <= y

\* _parse_serial_for_ebay keeping the leading number only when it is 1
ParseSerialLeadingOneOnly(serial_raw) ==
    LET s0 == NormOptional(serial_raw)
        s == SubOf(s0, 1)
        fr == {i \in DOMAIN s : FractionAt(s, i)}
        dn == {j \in DOMAIN s : DenomAt(s, j)}
    IN  IF s0 = <<>> THEN NoneStr
        ELSE IF fr # {}
        THEN LET i == Min(fr)
                 first == ToInt(SubSeq(s, i, DigitRunEnd(s, i)))
                 denom == ToInt(DenomText(s, SkipWS(s, DigitRunEnd(s, i) + 1)))
             IN  IF denom <= 0 THEN NoneStr
                 ELSE IF first = 1
                 THEN SomeStr(IntToStr(first) \o <<"/">> \o IntToStr(denom))
                 ELSE SomeStr(<<"/">> \o IntToStr(denom))
        ELSE IF dn # {}
        THEN LET denom == ToInt(DenomText(s, Min(dn)))
             IN  IF denom <= 0 THEN NoneStr ELSE SomeStr(<<"/">> \o IntToStr(denom))
        ELSE NoneStr

\* title_builder._parse_serial_for_ebay
ParseSerialForEbay(serial_raw) ==
    LET s0 == NormOptional(serial_raw)
        s == SubOf(s0, 1)
        fr == {i \in DOMAIN s : FractionAt(s, i)}
        dn == {j \in DOMAIN s : DenomAt(s, j)}
    IN  IF s0 = <<>> THEN NoneStr
        ELSE IF fr # {}
        THEN LET i == Min(fr)
                 first == ToInt(SubSeq(s, i, DigitRunEnd(s, i)))
                 denom == ToInt(DenomText(s, SkipWS(s, DigitRunEnd(s, i) + 1)))
             IN  IF denom <= 0 THEN NoneStr
                 ELSE IF first = 1 \/ first = denom
                 THEN SomeStr(IntToStr(first) \o <<"/">> \o IntToStr(denom))
                 ELSE SomeStr(<<"/">> \o IntToStr(denom))
        ELSE IF dn # {}
        THEN LET denom == ToInt(DenomText(s, Min(dn)))
             IN  IF denom <= 0 THEN NoneStr ELSE SomeStr(<<"/">> \o IntToStr(denom))
        ELSE NoneStr

\* ------------------------------------------------------------ title builder

EBAY_TITLE_MAX == 80

\* include_order with the team groups moved to the front
IncludeOrderTeamFirst == <<"team_city", "team_name", "insert", "parallel", "auto_patch", "serial",
                           "grading_company", "numerical_grade", "rookie">>

\* include_order
IncludeOrder == <<"insert", "parallel", "auto_patch", "serial", "grading_company",
                  "numerical_grade", "team_city", "team_name", "rookie">>

\* drop_priority
DropPriority == <<"team_city", "team_name", "numerical_grade", "grading_company",
                  "parallel", "insert", "serial", "auto_patch", "rookie">>

Groups == Range(IncludeOrder)

EmptyStr == StrVal(<<>>)

\* The six required fields: stringified and cleaned
MandatoryTokens(card) ==
    << Clean(PyStr(GetOr(card, "year", EmptyStr))),
       Clean(PyStr(GetOr(card, "brand", EmptyStr))),
       Clean(PyStr(GetOr(card, "set", GetOr(card, "set_name", EmptyStr)))),
       Clean(PyStr(GetOr(card, "player_first", GetOr(card, "player_first_name", EmptyStr)))),
       Clean(PyStr(GetOr(card, "player_last", GetOr(card, "player_last_name", EmptyStr)))),
       Clean(PyStr(GetOr(card, "card_number", GetOr(card, "card_no", EmptyStr)))) >>

\* _parse_serial_for_ebay(inp.serial_raw), with serial_raw = card.get("serial", card.get("serial_number"))
SerialParsed(card) == ParseSerialForEbay(GetOr(card, "serial", Get(card, "serial_number")))

\* x or "" for an Optional[str] x
OrEmpty(x) == IF x.none THEN <<>> ELSE x.s

\* serial_fmt = _parse_serial_for_ebay(inp.serial_raw) or ""
SerialFmt(card) == OrEmpty(SerialParsed(card))

\* group_values
GroupValues(card) ==
    [g \in Groups |->
        CASE g = "insert" -> JoinTokens(<<NormOptional(GetOr(card, "insert", Get(card, "insert_set")))>>)
          [] g = "parallel" -> JoinTokens(<<NormOptional(GetOr(card, "parallel", Get(card, "variety")))>>)
          [] g = "auto_patch" -> JoinTokens(<<NormOptional(GetOr(card, "auto_patch", Get(card, "auto_patch_type")))>>)
          [] g = "serial" -> JoinTokens(<<SerialFmt(card)>>)
          [] g = "grading_company" -> JoinTokens(<<NormOptional(GetOr(card, "grading_company", Get(card, "grader")))>>)
          [] g = "numerical_grade" -> JoinTokens(<<NormOptional(GetOr(card, "numerical_grade", Get(card, "grade")))>>)
          [] g = "team_city" -> JoinTokens(<<NormOptional(Get(card, "team_city"))>>)
          [] g = "team_name" -> JoinTokens(<<NormOptional(GetOr(card, "team_name", Get(card, "team")))>>)
          [] g = "rookie" -> JoinTokens(<<NormOptional(GetOr(card, "rookie", Get(card, "rc")))>>)]

\* The values of the groups of `order`, from position i on, that active holds non-empty
RECURSIVE ActiveValues(_, _, _)
ActiveValues(active, order, i) ==
    IF i > Len(order) THEN <<>>
    ELSE (IF active[order[i]] # <<>> THEN <<active[order[i]]>> ELSE <<>>)
         \o ActiveValues(active, order, i + 1)

\* tokens = mandatory_tokens[:] + the non-empty groups in include_order; _join_tokens
Assemble(mandatory, active) == JoinTokens(mandatory \o ActiveValues(active, IncludeOrder, 1))

\* The drop loop without its `if len(title) <= EBAY_TITLE_MAX: break`
RECURSIVE DropLoopNoBreak(_, _, _, _, _)
DropLoopNoBreak(mandatory, active, title, dropped, i) ==
    IF i > Len(DropPriority)
    THEN [title |-> title, dropped |-> dropped]
    ELSE IF active[DropPriority[i]] # <<>>
         THEN LET a2 == [active EXCEPT ![DropPriority[i]] = <<>>]
              IN  DropLoopNoBreak(mandatory, a2, Assemble(mandatory, a2),
                                  Append(dropped, DropPriority[i]), i + 1)
         ELSE DropLoopNoBreak(mandatory, active, title, dropped, i + 1)

\* The drop loop, at position i of drop_priority
RECURSIVE DropLoop(_, _, _, _, _)
DropLoop(mandatory, active, title, dropped, i) ==
    IF i > Len(DropPriority) \/ Len(title) <= EBAY_TITLE_MAX
    THEN [title |-> title, dropped |-> dropped]
    ELSE IF active[DropPriority[i]] # <<>>
         THEN LET a2 == [active EXCEPT ![DropPriority[i]] = <<>>]
              IN  DropLoop(mandatory, a2, Assemble(mandatory, a2),
                           Append(dropped, DropPriority[i]), i + 1)
         ELSE DropLoop(mandatory, active, title, dropped, i + 1)

\* No exception; and the exception a function raised: its type and, for the title
\* overflow, the title and the length its message carries
NoError == [kind |-> "none", where |-> "", title |-> <<>>, len |-> 0]

TitleOverflow(title) ==
    [kind |-> "ValueError", where |-> "build_ebay_title", title |-> title, len |-> Len(title)]

ItemError(kind) == [kind |-> kind, where |-> "build_item_specifics", title |-> <<>>, len |-> 0]

\* build_ebay_title without the drop loop
FitTitleNoDrops(mandatory, gv, first) == [title |-> first, dropped |-> <<>>]

\* dropped = []; if len(title) > EBAY_TITLE_MAX: the drop loop
FitTitle(mandatory, gv, first) ==
    IF Len(first) > EBAY_TITLE_MAX
    THEN DropLoop(mandatory, gv, first, <<>>, 1)
    ELSE [title |-> first, dropped |-> <<>>]

\* build_ebay_title cutting the title at the limit instead of raising
TitleOutcomeTruncating(r) ==
    [raised |-> FALSE, title |-> SubSeq(r.title, 1, Min({Len(r.title), EBAY_TITLE_MAX})),
     dropped |-> r.dropped,
     error |-> NoError]

\* if len(title) > EBAY_TITLE_MAX: raise ValueError(...); return title, dropped
TitleOutcome(r) ==
    IF Len(r.title) > EBAY_TITLE_MAX
    THEN [raised |-> TRUE, title |-> <<>>, dropped |-> <<>>, error |-> TitleOverflow(r.title)]
    ELSE [raised |-> FALSE, title |-> r.title, dropped |-> r.dropped, error |-> NoError]

\* The title of mandatory tokens and group values
TitleOf(mandatory, gv) == TitleOutcome(FitTitle(mandatory, gv, Assemble(mandatory, gv)))

\* title_builder.build_ebay_title: (title, dropped), or ValueError
BuildEbayTitleOf(card) == TitleOf(MandatoryTokens(card), GroupValues(card))

\* ------------------------------------------------------------ item specifics: helpers

S_Base == <<"[", "B", "a", "s", "e", "]">>
S_BaseSet == <<"B", "a", "s", "e", " ", "S", "e", "t">>
S_Memorabilia == <<"M", "e", "m", "o", "r", "a", "b", "i", "l", "i", "a">>

\* The aspects that direct_map names (the keys of the item mapping in the model)
Aspects == {"Player/Athlete", "Manufacturer", "Set", "Team", "Season", "Year Manufactured",
            "Parallel/Variety", "Features", "Insert Set", "Autographed", "Professional Grader",
            "Grade", "Card Thickness", "Event/Tournament", "League", "Card Name", "Card Number",
            "Print Run", "Signed By", "Autograph Authentication",
            "Autograph Authentication Number", "Autograph Format",
            "California Prop 65 Warning", "Sport", "Type"}

\* pat in text (substring test)
Contains(text, pat) ==
    \E i \in 1..(Len(text) - Len(pat) + 1) : SubSeq(text, i, i + Len(pat) - 1) = pat

\* pipeline.strip_hash
StripHash(s) ==
    IF Strip(s) # <<>> /\ Head(Strip(s)) = "#" THEN Strip(Tail(Strip(s))) ELSE Strip(s)

\* str.replace("of", "/"), scanning from position i
RECURSIVE ReplaceOf(_, _)
ReplaceOf(s, i) ==
    IF i > Len(s) THEN <<>>
    ELSE IF i + 1 <= Len(s) /\ s[i] = "o" /\ s[i + 1] = "f" THEN <<"/">> \o ReplaceOf(s, i + 2)
    ELSE <<s[i]>> \o ReplaceOf(s, i + 1)

\* s.split("/")[-1]: what follows the last "/"
RECURSIVE LastPart(_)
LastPart(s) ==
    IF s = <<>> \/ s[Len(s)] = "/" THEN <<>>
    ELSE LastPart(SubSeq(s, 1, Len(s) - 1)) \o <<s[Len(s)]>>

\* A str result, or the exception the call raised
Returned(s) == [raised |-> "", s |-> s]
Raised(kind) == [raised |-> kind, s |-> <<>>]

\* str(int(x)) once x.isdigit() held: int() raises ValueError on a digit that is no decimal
StrOfInt(x) == IF IntParses(x) THEN Returned(IntToStr(ToInt(x))) ELSE Raised("ValueError")

\* pipeline.serial_denominator_only_no_slash
SerialDenominatorOnlyNoSlash(serial) ==
    LET s0 == NormOptional(serial)
        s == ReplaceOf(Lower(s0), 1)
    IN  IF s0 = <<>> THEN Returned(<<>>)
        ELSE IF \E i \in DOMAIN s : s[i] = "/"
        THEN IF IsDigitStr(Strip(LastPart(s))) THEN StrOfInt(Strip(LastPart(s))) ELSE Returned(<<>>)
        ELSE IF IsDigitStr(s) THEN StrOfInt(s) ELSE Returned(<<>>)

\* (a or b or "").strip() raises AttributeError when the chosen value is no str
NamePart(card, k1, k2) == Or(Or(Get(card, k1), Get(card, k2)), EmptyStr)

\* pipeline.get_player_name
GetPlayerName(card) ==
    LET pf == NamePart(card, "player_first", "player_first_name")
        pl == NamePart(card, "player_last", "player_last_name")
    IN  IF pf.t # "str" \/ pl.t # "str" THEN Raised("AttributeError")
        ELSE Returned(Strip(Strip(pf.s) \o <<" ">> \o Strip(pl.s)))

Or3(a, b, c) == Or(Or(a, b), c)

\* direct_map without its "Player/Athlete" entry
DirectRaw(card, aspect) ==
    CASE aspect = "Manufacturer" -> Or(Get(card, "Manufacturer"), Get(card, "brand"))
      [] aspect = "Set" -> Or3(Get(card, "Set"), Get(card, "set"), Get(card, "set_name"))
      [] aspect = "Team" -> Or3(Get(card, "Team"), Get(card, "team_name"), Get(card, "team"))
      [] aspect = "Season" -> Or(Get(card, "Season"), Get(card, "year"))
      [] aspect = "Year Manufactured" -> Or(Get(card, "Year Manufactured"), Get(card, "year"))
      [] aspect = "Parallel/Variety" -> Or(Get(card, "Parallel/Variety"), Get(card, "parallel"))
      [] aspect = "Insert Set" -> Or3(Get(card, "Insert Set"), Get(card, "insert_set"), Get(card, "insert"))
      [] aspect = "Autographed" -> Or(Get(card, "Autographed"), Get(card, "autographed"))
      [] aspect = "Professional Grader" ->
            Or3(Get(card, "Professional Grader"), Get(card, "grading_company"), Get(card, "grader"))
      [] aspect = "Grade" -> Or3(Get(card, "Grade"), Get(card, "grade"), Get(card, "numerical_grade"))
      [] aspect = "Card Number" -> Or(Get(card, "Card Number"), Get(card, "card_number"))
      [] aspect = "Sport" -> Or(Get(card, "Sport"), Get(card, "sport"))
      [] OTHER -> Get(card, aspect)

\* The "Player/Athlete" entry of direct_map: get_player_name is called only when
\* both keys are falsy
PlayerAthleteRaw(card) == Or(Get(card, "player_athlete"), Get(card, "Player/Athlete"))

\* [str(x).strip() for x in raw if str(x).strip()]
RECURSIVE StripNonEmpty(_)
StripNonEmpty(l) ==
    IF l = <<>> THEN <<>>
    ELSE (IF Strip(l[1]) # <<>> THEN <<Strip(l[1])>> ELSE <<>>) \o StripNonEmpty(Tail(l))

\* What the normalisation loop writes for one aspect (Absent: nothing is written)
DirectWrite(aspect, raw) ==
    IF aspect = "Features"
    THEN IF raw.t = "list" /\ raw.l # <<>> THEN ListVal(StripNonEmpty(raw.l))
         ELSE IF raw.t = "str" /\ Strip(raw.s) # <<>> THEN StrVal(Strip(raw.s))
         ELSE Absent
    ELSE IF NormOptional(raw) # <<>> THEN StrVal(NormOptional(raw)) ELSE Absent

\* An item mapping, or the exception raised
Item(m) == [raised |-> "", item |-> m]
ItemRaised(kind) == [raised |-> kind, item |-> [a \in Aspects |-> Absent]]

\* ------------------------------------------------------------ item specifics: layers

\* 1) item[k] = v for every key of globals_defaults
LayerGlobals(defaults) == [a \in Aspects |-> defaults[a]]

\* 2) direct_map and its normalisation loop
LayerDirect(card, m) ==
    LET pa == PlayerAthleteRaw(card)
        name == GetPlayerName(card)
        raw(a) == IF a = "Player/Athlete"
                  THEN (IF Truthy(pa) THEN pa ELSE StrVal(name.s))
                  ELSE DirectRaw(card, a)
    IN  IF ~Truthy(pa) /\ name.raised # "" THEN ItemRaised(name.raised)
        ELSE Item([a \in Aspects |->
                     IF DirectWrite(a, raw(a)) = Absent THEN m[a] ELSE DirectWrite(a, raw(a))])

\* The value of one derive_and_enforce rule, before `if val`
DeriveValue(card, rule) ==
    LET src == CASE rule.from = "player_name" -> GetPlayerName(card)
                 [] rule.from = "card_number" -> Returned(Strip(PyStr(GetOr(card, "card_number", EmptyStr))))
                 [] rule.from = "serial_number" -> Returned(Strip(PyStr(GetOr(card, "serial_number", EmptyStr))))
                 [] rule.from = "year" -> Returned(Strip(PyStr(GetOr(card, "year", EmptyStr))))
                 [] OTHER -> Returned(<<>>)
    IN  IF src.raised # "" THEN src
        ELSE CASE rule.transform = "strip_hash" -> Returned(StripHash(src.s))
               [] rule.transform = "serial_denominator_only_no_slash" ->
                     SerialDenominatorOnlyNoSlash(StrVal(src.s))
               [] OTHER -> src

\* 3) the derive_and_enforce rules, from rule i on
RECURSIVE LayerDerive(_, _, _, _)
LayerDerive(card, rules, m, i) ==
    IF i > Len(rules) THEN Item(m)
    ELSE LET v == DeriveValue(card, rules[i])
         IN  IF v.raised # "" THEN ItemRaised(v.raised)
             ELSE LayerDerive(card, rules,
                              IF v.s # <<>> THEN [m EXCEPT ![rules[i].target] = StrVal(v.s)] ELSE m,
                              i + 1)

\* The first rule of `rules`, from i on, whose when.Sport is sport (0: none)
RECURSIVE FirstSportRule(_, _, _)
FirstSportRule(rules, sport, i) ==
    IF i > Len(rules) THEN 0
    ELSE IF rules[i].sport = sport THEN i
    ELSE FirstSportRule(rules, sport, i + 1)

\* The League / Event/Tournament mapping of one conditional entry
SportMapped(entry, sport, m, k) ==
    LET i == FirstSportRule(entry.rules, sport, 1)
    IN  IF entry.present /\ sport # <<>> /\ i # 0 /\ NormOptional(entry.rules[i].value) # <<>>
        THEN [m EXCEPT ![k] = StrVal(NormOptional(entry.rules[i].value))]
        ELSE m

\* feats_text = " ".join(feats) if isinstance(feats, list) else str(feats)
FeatsText(m) ==
    LET feats == GetOr(m, "Features", ListVal(<<>>))
    IN  IF feats.t = "list" THEN SpaceJoin(feats.l) ELSE PyStr(feats)

\* Card Thickness: the Memorabilia blank first, then the default
ThicknessDefaultLast(entry, m) ==
    LET m1 == IF Contains(FeatsText(m), S_Memorabilia)
              THEN [m EXCEPT !["Card Thickness"] = EmptyStr]
              ELSE m
    IN  IF ~entry.present THEN m
        ELSE IF NormOptional(Get(m1, "Card Thickness")) = <<>> /\ NormOptional(entry.default) # <<>>
        THEN [m1 EXCEPT !["Card Thickness"] = StrVal(NormOptional(entry.default))]
        ELSE m1

\* Card Thickness: the default, then the Memorabilia blank
Thickness(entry, m) ==
    LET m1 == IF NormOptional(Get(m, "Card Thickness")) = <<>> /\ NormOptional(entry.default) # <<>>
              THEN [m EXCEPT !["Card Thickness"] = StrVal(NormOptional(entry.default))]
              ELSE m
    IN  IF ~entry.present THEN m
        ELSE IF Contains(FeatsText(m1), S_Memorabilia)
        THEN [m1 EXCEPT !["Card Thickness"] = EmptyStr]
        ELSE m1

\* 4) conditional_aspects
LayerConditional(ca, m) ==
    LET sportv == Or(Get(m, "Sport"), EmptyStr)
        sport == Strip(sportv.s)
        m1 == IF ca.prop65 THEN [m EXCEPT !["California Prop 65 Warning"] = EmptyStr] ELSE m
        m2 == SportMapped(ca.league, sport, m1, "League")
        m3 == SportMapped(ca.event, sport, m2, "Event/Tournament")
    IN  IF sportv.t # "str" THEN ItemRaised("AttributeError")
        ELSE IF ~ca.is_dict THEN Item(m)
        ELSE Item(Thickness(ca.thickness, m3))

\* for k, v in when_no.items(): item[k] = v, from entry i on
RECURSIVE CopyEntries(_, _, _)
CopyEntries(entries, m, i) ==
    IF i > Len(entries) THEN m
    ELSE CopyEntries(entries, [m EXCEPT ![entries[i].k] = entries[i].v], i + 1)

\* when_yes without the allow-list test on Autograph Format
WhenYesAnyFormat(card, wy, m) ==
    LET name == GetPlayerName(card)
        m1 == IF wy.signed_by_player THEN [m EXCEPT !["Signed By"] = StrVal(name.s)] ELSE m
        m2 == IF wy.auth # Absent THEN [m1 EXCEPT !["Autograph Authentication"] = wy.auth] ELSE m1
        m3 == [m2 EXCEPT !["Autograph Authentication Number"] = EmptyStr]
    IN  IF ~wy.is_dict THEN Item(m)
        ELSE IF wy.signed_by_player /\ name.raised # "" THEN ItemRaised(name.raised)
        ELSE Item(m3)

\* The when_yes branch
WhenYes(card, wy, m) ==
    LET name == GetPlayerName(card)
        m1 == IF wy.signed_by_player THEN [m EXCEPT !["Signed By"] = StrVal(name.s)] ELSE m
        m2 == IF wy.auth # Absent THEN [m1 EXCEPT !["Autograph Authentication"] = wy.auth] ELSE m1
        m3 == [m2 EXCEPT !["Autograph Authentication Number"] = EmptyStr]
        current == NormOptional(Get(m3, "Autograph Format"))
    IN  IF ~wy.is_dict THEN Item(m)
        ELSE IF wy.signed_by_player /\ name.raised # "" THEN ItemRaised(name.raised)
        ELSE IF wy.format.present /\ current # <<>> /\ wy.format.allowed # <<>>
                /\ current \notin Range(wy.format.allowed)
        THEN Item([m3 EXCEPT !["Autograph Format"] = EmptyStr])
        ELSE Item(m3)

\* 5) autograph_rules
LayerAutograph(card, ar, m) ==
    LET auto == Lower(NormOptional(Get(m, "Autographed")))
    IN  IF ~ar.present THEN Item(m)
        ELSE IF auto = S_no
        THEN (IF ar.when_no.is_dict THEN Item(CopyEntries(ar.when_no.entries, m, 1)) ELSE Item(m))
        ELSE IF auto = S_yes THEN WhenYes(card, ar.when_yes, m)
        ELSE Item(m)

\* 6) and 7) the Parallel/Variety and Features defaults
LayerFallback(pvr, fr, m) ==
    LET m1 == IF pvr.is_dict /\ NormOptional(Get(m, "Parallel/Variety")) = <<>>
              THEN [m EXCEPT !["Parallel/Variety"] =
                        IF pvr.default = Absent THEN StrVal(S_Base) ELSE pvr.default]
              ELSE m
    IN  IF fr.is_dict /\ ~Truthy(Get(m1, "Features"))
        THEN [m1 EXCEPT !["Features"] =
                  IF fr.default = Absent THEN ListVal(<<S_BaseSet>>) ELSE fr.default]
        ELSE m1

\* Print Run derived from serial_number only where no earlier layer wrote one
LayerPrintRunKeepsEarlier(card, m) ==
    LET denom == SerialDenominatorOnlyNoSlash(Get(card, "serial_number"))
    IN  IF denom.raised # "" THEN ItemRaised(denom.raised)
        ELSE IF denom.s # <<>> /\ ~Truthy(Get(m, "Print Run"))
        THEN Item([m EXCEPT !["Print Run"] = StrVal(denom.s)])
        ELSE Item(m)

\* 8) Print Run from the serial number's denominator
LayerPrintRun(card, m) ==
    LET denom == SerialDenominatorOnlyNoSlash(Get(card, "serial_number"))
    IN  IF denom.raised # "" THEN ItemRaised(denom.raised)
        ELSE IF denom.s # <<>> THEN Item([m EXCEPT !["Print Run"] = StrVal(denom.s)])
        ELSE Item(m)

\* 9) Insert Set passthrough
LayerInsertSet(card, m) ==
    LET ins == NormOptional(Or(Get(card, "insert_set"), Get(card, "insert")))
    IN  IF ins # <<>> THEN [m EXCEPT !["Insert Set"] = StrVal(ins)] ELSE m

\* ------------------------------------------------------------ inputs

\* The card keys the code reads
CardKeys == {"year", "brand", "set", "set_name", "player_first", "player_first_name",
             "player_last", "player_last_name", "card_number", "card_no", "insert",
             "insert_set", "parallel", "variety", "auto_patch", "auto_patch_type", "serial",
             "serial_number", "grading_company", "grader", "numerical_grade", "grade",
             "team_city", "team_name", "team", "rookie", "rc", "player_athlete", "autographed",
             "sport"} \cup Aspects

\* The card that holds the keys of `pairs` and no other
CardOf(pairs) == [k \in CardKeys |-> IF k \in DOMAIN pairs THEN pairs[k] ELSE Absent]

\* The mapping (defaults, when_no) that holds the keys of `pairs` and no other
MapOf(pairs) == [a \in Aspects |-> IF a \in DOMAIN pairs THEN pairs[a] ELSE Absent]

\* `base` with the keys of `pairs` set (Absent removes a key)
With(base, pairs) == [k \in DOMAIN base |-> IF k \in DOMAIN pairs THEN pairs[k] ELSE base[k]]

Rep(c, n) == [i \in 1..n |-> c]

\* The longest serial text the serial inputs enumerate
MaxSerialLen == 4

\* How many spaces may separate two words of a sample value
MaxGap == 2

S_2023 == <<"2", "0", "2", "3">>
S_Topps == <<"T", "o", "p", "p", "s">>
S_Chrome == <<"C", "h", "r", "o", "m", "e">>
S_Jane == <<"J", "a", "n", "e">>
S_Doe == <<"D", "o", "e">>
S_15 == <<"1", "5">>
S_Chicago == <<"C", "h", "i", "c", "a", "g", "o">>
S_Bulls == <<"B", "u", "l", "l", "s">>
S_RC == <<"R", "C">>
S_NA == <<"N", "/", "A">>
S_of10 == <<"o", "f", " ", "1", "0">>
S_slash10 == <<"/", "1", "0">>

\* The card of the end-to-end scenario
ScenarioPairs ==
    ("year" :> StrVal(S_2023)) @@ ("brand" :> StrVal(S_Topps)) @@ ("set" :> StrVal(S_Chrome))
    @@ ("player_first" :> StrVal(S_Jane)) @@ ("player_last" :> StrVal(S_Doe))
    @@ ("card_number" :> StrVal(S_15)) @@ ("serial_number" :> StrVal(<<"1", "/", "9", "9">>))
    @@ ("team_city" :> StrVal(S_Chicago)) @@ ("team_name" :> StrVal(S_Bulls))
    @@ ("rookie" :> StrVal(S_RC))

ScenarioCard == CardOf(ScenarioPairs)

\* One card key and a sample value per optional title group
GroupKey ==
    [g \in Groups |->
        CASE g = "insert" -> "insert" [] g = "parallel" -> "parallel"
          [] g = "auto_patch" -> "auto_patch" [] g = "serial" -> "serial"
          [] g = "grading_company" -> "grading_company" [] g = "numerical_grade" -> "numerical_grade"
          [] g = "team_city" -> "team_city" [] g = "team_name" -> "team_name"
          [] g = "rookie" -> "rookie"]

GroupSample ==
    [g \in Groups |->
        CASE g = "insert" -> StrVal(<<"G", "o", "l", "d", " ", "R", "u", "s", "h">>) [] g = "parallel" -> StrVal(<<"R", "e", "f", "r", "a", "c", "t", "o", "r">>)
          [] g = "auto_patch" -> StrVal(<<"P", "a", "t", "c", "h", " ", "A", "u", "t", "o">>) [] g = "serial" -> StrVal(<<"1", "2", "/", "9", "9">>)
          [] g = "grading_company" -> StrVal(<<"P", "S", "A">>) [] g = "numerical_grade" -> StrVal(<<"9", ".", "5">>)
          [] g = "team_city" -> StrVal(<<"C", "h", "i", "c", "a", "g", "o">>) [] g = "team_name" -> StrVal(<<"B", "u", "l", "l", "s">>)
          [] g = "rookie" -> StrVal(<<"R", "C">>)]

\* Lengths of the set name: the mandatory title is 23 characters longer
SetNameLens == {6, 37, 47, 52, 57, 58}

\* Cards under length pressure: a set name of each length, any subset of the groups
PressureCards ==
    {[k \in CardKeys |->
        IF k = "set" THEN StrVal(Rep("x", n))
        ELSE IF \E g \in present : GroupKey[g] = k
        THEN GroupSample[CHOOSE g \in present : GroupKey[g] = k]
        ELSE IF k \in {"year", "brand", "player_first", "player_last", "card_number"}
        THEN ScenarioCard[k]
        ELSE Absent] : n \in SetNameLens, present \in SUBSET Groups}

\* A two-word value with g spaces between the words, padded with whitespace
Gapped(g) == StrVal(<<" ">> \o <<"G", "o", "l", "d">> \o Rep(" ", g) \o <<"R", "u", "s", "h">> \o <<"\t">>)

\* Cards whose fields hold nulls, booleans, numbers, placeholders and stray whitespace
OddCards ==
    {With(ScenarioCard,
          ("year" :> y) @@ ("brand" :> b) @@ ("set" :> s[1]) @@ ("set_name" :> s[2])
          @@ ("insert" :> i[1]) @@ ("insert_set" :> i[2]) @@ ("rookie" :> r)) :
        y \in {Absent, NoneVal, BoolVal(TRUE), BoolVal(FALSE), IntVal(2023), StrVal(<<" ", "2", "0", "2", "3", " ">>)},
        b \in {StrVal(S_Topps), StrVal(S_NA), StrVal(<<" ", "T", "o", " ", " ", "p", "p", "s", "\t">>), StrVal(<<"n", "o", "n", "e">>)},
        s \in {<<StrVal(S_Chrome), Absent>>, <<Absent, StrVal(S_Chrome)>>,
               <<NoneVal, StrVal(S_Chrome)>>},
        i \in {<<Absent, Absent>>, <<Absent, StrVal(<<"G", "o", "l", "d">>)>>, <<StrVal(<<"n", "o">>), StrVal(<<"G", "o", "l", "d">>)>>,
               <<BoolVal(FALSE), Absent>>} \cup {<<Gapped(g), Absent>> : g \in 1..MaxGap},
        r \in {Absent, StrVal(S_RC), BoolVal(TRUE), StrVal(<<"N", "o", "n", "e">>), StrVal(<<" ", "n", "/", "a", " ">>)}}

TitleCards == PressureCards \cup OddCards

SerialAlphabet == {"0", "1", "9", "/", " "}

RECURSIVE StringsUpTo(_, _)
StringsUpTo(alphabet, n) ==
    IF n = 0 THEN {<<>>}
    ELSE LET shorter == StringsUpTo(alphabet, n - 1)
         IN  shorter \cup {Append(s, c) : s \in {x \in shorter : Len(x) = n - 1}, c \in alphabet}

\* Serial values: every text over the alphabet up to the bound, the spec's examples,
\* the "of" variants, and values that are no str
SerialValues ==
    {StrVal(s) : s \in StringsUpTo(SerialAlphabet, MaxSerialLen)}
    \cup {StrVal(<<"1", "/", "9", "9">>), StrVal(<<"5", "0", "/", "9", "9">>), StrVal(<<"9", "9", "/", "9", "9">>), StrVal(<<"0", "/", "1", "0">>), StrVal(<<"/", "2", "5">>), StrVal(<<"1", "2", "/", "0">>), StrVal(<<"1", "2", "/", "0", " ", "5", "/", "9", "9">>), StrVal(<<"0", "9", "9", "/", "1", "9", "9">>),
          StrVal(S_of10), StrVal(<<"o", "f", "1", "0">>), StrVal(<<"1", " ", "o", "f", " ", "9", "9">>), StrVal(<<"1", "o", "f", "9", "9">>), StrVal(<<"1", "2", " ", "O", "F", " ", "9", "9">>), StrVal(<<"O", "f", " ", "1", "0">>), StrVal(<<"p", "r", "o", "o", "f", " ", "5">>), StrVal(<<"n", "/", "a">>),
          StrVal(<<"1", " ", "/", "\t", "9", "9">>), StrVal(<<"#", "1", "/", "1">>), NoneVal, BoolVal(TRUE), IntVal(99),
          StrVal(<<"1", "/", SupTwo>>), StrVal(<<SupTwo>>)}

SerialCards ==
    {With(ScenarioCard, ("serial" :> a) @@ ("serial_number" :> b)) :
        a \in {Absent}, b \in SerialValues}
    \cup {With(ScenarioCard, ("serial" :> a) @@ ("serial_number" :> StrVal(<<"7", "/", "7">>))) :
              a \in {NoneVal, StrVal(<<"5", "0", "/", "9", "9">>), StrVal(<<"n", "/", "a">>)}}

\* ------------------------------------------------------------ configuration

Rule(target, from, transform) == [target |-> target, from |-> from, transform |-> transform]
SportRule(sport, value) == [sport |-> sport, value |-> value]
Entry(k, v) == [k |-> k, v |-> v]
NoSportRules == [present |-> FALSE, rules |-> <<>>]

\* An enforced-requirements document with no section at all: every .get() falls
\* back to {}
EmptyEnforced ==
    [dae |-> <<>>,
     ca |-> [is_dict |-> TRUE, prop65 |-> FALSE, league |-> NoSportRules, event |-> NoSportRules,
             thickness |-> [present |-> FALSE, default |-> NoneVal]],
     ar |-> [present |-> FALSE,
             when_no |-> [is_dict |-> TRUE, entries |-> <<>>],
             when_yes |-> [is_dict |-> TRUE, signed_by_player |-> FALSE, auth |-> Absent,
                           format |-> [present |-> FALSE, allowed |-> <<>>]]],
     pvr |-> [is_dict |-> TRUE, default |-> Absent],
     fr |-> [is_dict |-> TRUE, default |-> Absent]]

BaseWhenNo ==
    << Entry("Signed By", EmptyStr), Entry("Autograph Authentication", EmptyStr),
       Entry("Autograph Authentication Number", EmptyStr), Entry("Autograph Format", EmptyStr) >>

\* A document with every section configured
BaseEnforced ==
    [dae |-> << Rule("Player/Athlete", "player_name", ""),
                Rule("Card Number", "card_number", "strip_hash"),
                Rule("Print Run", "serial_number", "serial_denominator_only_no_slash"),
                Rule("Season", "year", "") >>,
     ca |-> [is_dict |-> TRUE, prop65 |-> TRUE,
             league |-> [present |-> TRUE,
                         rules |-> << SportRule(<<"B", "a", "s", "k", "e", "t", "b", "a", "l", "l">>, StrVal(<<"N", "B", "A">>)), SportRule(<<"B", "a", "s", "e", "b", "a", "l", "l">>, StrVal(<<"M", "L", "B">>)),
                                      SportRule(<<"B", "a", "s", "k", "e", "t", "b", "a", "l", "l">>, StrVal(<<"W", "N", "B", "A">>)) >>],
             event |-> [present |-> TRUE, rules |-> << SportRule(<<"G", "o", "l", "f">>, StrVal(<<"M", "a", "s", "t", "e", "r", "s">>)) >>],
             thickness |-> [present |-> TRUE, default |-> StrVal(<<"3", "5", " ", "P", "t", ".">>)]],
     ar |-> [present |-> TRUE,
             when_no |-> [is_dict |-> TRUE, entries |-> BaseWhenNo],
             when_yes |-> [is_dict |-> TRUE, signed_by_player |-> TRUE, auth |-> StrVal(<<"M", "a", "n", "u", "f", "a", "c", "t", "u", "r", "e", "r">>),
                           format |-> [present |-> TRUE, allowed |-> <<<<"O", "n", " ", "C", "a", "r", "d">>, <<"S", "t", "i", "c", "k", "e", "r">>>>]]],
     pvr |-> [is_dict |-> TRUE, default |-> StrVal(S_Base)],
     fr |-> [is_dict |-> TRUE, default |-> ListVal(<<S_BaseSet>>)]]

\* Print Run written by every earlier layer that can write it
PrintRunEnforced ==
    [BaseEnforced EXCEPT
        !.dae = << Rule("Print Run", "year", ""), Rule("Card Number", "card_number", "strip_hash") >>,
        !.ar.when_no.entries = BaseWhenNo \o << Entry("Print Run", StrVal(<<"0">>)) >>]

\* No allow-list, no authentication value, Signed By not taken from the player
LooseEnforced ==
    [BaseEnforced EXCEPT
        !.ar.when_yes = [is_dict |-> TRUE, signed_by_player |-> FALSE, auth |-> Absent,
                         format |-> [present |-> TRUE, allowed |-> <<>>]],
        !.ca.thickness = [present |-> TRUE, default |-> StrVal(<<"N", "/", "A">>)]]

\* Sections that are no dict
MalformedEnforced ==
    [BaseEnforced EXCEPT
        !.ca.is_dict = FALSE, !.ar.when_no.is_dict = FALSE, !.ar.when_yes.is_dict = FALSE,
        !.pvr.is_dict = FALSE, !.fr.is_dict = FALSE]

NoDefaults == MapOf(<<>>)

BaseDefaults ==
    MapOf(("Sport" :> StrVal(<<"B", "a", "s", "k", "e", "t", "b", "a", "l", "l">>)) @@ ("Type" :> StrVal(<<"S", "p", "o", "r", "t", "s", " ", "T", "r", "a", "d", "i", "n", "g", " ", "C", "a", "r", "d">>))
          @@ ("Autographed" :> StrVal(<<"N", "o">>)) @@ ("Print Run" :> StrVal(<<"7">>)) @@ ("Team" :> StrVal(<<"F", "r", "e", "e", " ", "A", "g", "e", "n", "t">>))
          @@ ("Autograph Format" :> StrVal(<<"C", "u", "t">>)) @@ ("Card Thickness" :> StrVal(<<"2", "0", " ", "P", "t", ".">>))
          @@ ("Signed By" :> StrVal(<<"S", "o", "m", "e", "b", "o", "d", "y">>)))

\* Defaults that hold raw nulls, booleans and placeholders
RawDefaults ==
    MapOf(("Sport" :> StrVal(<<" ", "B", "a", "s", "e", "b", "a", "l", "l", " ">>)) @@ ("Autographed" :> BoolVal(FALSE)) @@ ("League" :> StrVal(<<"N", "/", "A">>))
          @@ ("Features" :> NoneVal) @@ ("Card Name" :> BoolVal(TRUE))
          @@ ("Parallel/Variety" :> StrVal(<<"n", "o", "n", "e">>)))

YesDefaults ==
    MapOf(("Autographed" :> StrVal(<<"Y", "e", "s">>)) @@ ("Sport" :> StrVal(<<"G", "o", "l", "f">>)) @@ ("Features" :> StrVal(<<"M", "e", "m", "o", "r", "a", "b", "i", "l", "i", "a">>))
          @@ ("Autograph Authentication Number" :> StrVal(<<"A", "-", "1">>)))

\* Defaults whose Autograph Format is a placeholder, and is padded with whitespace
PlaceholderFormatDefaults ==
    MapOf(("Autographed" :> StrVal(<<"Y", "e", "s">>)) @@ ("Autograph Format" :> StrVal(<<"N", "/", "A">>))
          @@ ("Autograph Authentication Number" :> StrVal(<<"A", "-", "1">>)))

PaddedFormatDefaults ==
    MapOf(("Autographed" :> StrVal(<<"Y", "e", "s">>)) @@ ("Autograph Format" :> StrVal(<<" ", "S", "t", "i", "c", "k", "e", "r", " ">>))
          @@ ("Autograph Authentication Number" :> BoolVal(TRUE)))

\* "Sport" is a number: (item.get("Sport") or "").strip() raises
NumberDefaults == MapOf(("Sport" :> IntVal(5)) @@ ("Autographed" :> StrVal(<<"N", "o">>)))

\* ------------------------------------------------------------ item-specifics inputs

\* Print Run: the serial number against every other source of the field
PrintRunInputs ==
    {[card |-> With(ScenarioCard, ("serial_number" :> sn) @@ ("Print Run" :> pr)
                                  @@ ("Autographed" :> au)),
      defaults |-> g, enforced |-> e] :
        sn \in {Absent, StrVal(<<"1", "2", "/", "9", "9">>), StrVal(<<"/", "2", "5">>), StrVal(<<"1", "2", "/", "0">>), StrVal(<<"5", "0">>), StrVal(<<"1", " ", "o", "f", " ", "9">>), StrVal(<<"9", "/">>), StrVal(<<"n", "/", "a">>), StrVal(<<"0", "0", "7">>), StrVal(<<"1", "/", "2", "/", "3">>),
                IntVal(99), StrVal(<<"1", "/", SupTwo>>)},
        pr \in {Absent, StrVal(<<"5", "0">>)},
        au \in {Absent, StrVal(<<"Y", "e", "s">>), StrVal(<<"N", "o">>)},
        g \in {NoDefaults, BaseDefaults},
        e \in {EmptyEnforced, BaseEnforced, PrintRunEnforced}}

\* Autograph dependencies
AutographInputs ==
    {[card |-> With(ScenarioCard, ("Autographed" :> au[1]) @@ ("autographed" :> au[2])
                                  @@ ("Signed By" :> sb) @@ ("Autograph Format" :> af)
                                  @@ ("Autograph Authentication Number" :> an)),
      defaults |-> g, enforced |-> e] :
        au \in {<<Absent, Absent>>, <<StrVal(<<"N", "o">>), Absent>>, <<Absent, StrVal(<<"n", "o">>)>>, <<StrVal(<<" ", "N", "O", " ">>), Absent>>,
                <<StrVal(<<"Y", "e", "s">>), Absent>>, <<Absent, StrVal(<<"Y", "E", "S">>)>>, <<BoolVal(FALSE), Absent>>,
                <<BoolVal(TRUE), Absent>>, <<StrVal(<<"N", "o">>), StrVal(<<"Y", "e", "s">>)>>},
        sb \in {Absent, StrVal(<<"J", "a", "n", "e", " ", "D", "o", "e">>)},
        af \in {Absent, StrVal(<<"C", "u", "t">>), StrVal(<<"O", "n", " ", "C", "a", "r", "d">>)},
        an \in {Absent, StrVal(<<"1", "2", "3">>)},
        g \in {NoDefaults, BaseDefaults, YesDefaults, RawDefaults, PlaceholderFormatDefaults,
                PaddedFormatDefaults},
        e \in {BaseEnforced, LooseEnforced, MalformedEnforced}}

\* Aliased keys of the direct mapping
AliasInputs ==
    {[card |-> With(ScenarioCard, ("Team" :> t1) @@ ("team_name" :> t2) @@ ("team" :> t3)
                                  @@ ("Manufacturer" :> mf) @@ ("sport" :> sp)),
      defaults |-> g, enforced |-> BaseEnforced] :
        t1 \in {Absent, NoneVal, BoolVal(FALSE), BoolVal(TRUE), IntVal(5), StrVal(<<" ", " ">>), StrVal(<<"N", "/", "A">>), StrVal(<<"n", "o", "n", "e">>),
                StrVal(<<"B", "e", "a", "r", "s">>), StrVal(<<" ", "B", "e", "a", "r", "s", "\t">>)},
        t2 \in {Absent, StrVal(<<"B", "u", "l", "l", "s">>), StrVal(<<"N", "/", "A">>)},
        t3 \in {Absent, StrVal(<<"C", "u", "b", "s">>)},
        mf \in {Absent, StrVal(<<"n", "/", "a">>), StrVal(<<"P", "a", "n", "i", "n", "i">>)},
        sp \in {Absent, StrVal(<<"G", "o", "l", "f">>)},
        g \in {NoDefaults, BaseDefaults}}

\* Card Thickness and Features
ThicknessInputs ==
    {[card |-> With(ScenarioCard, ("Features" :> f) @@ ("Card Thickness" :> ct)),
      defaults |-> g, enforced |-> e] :
        f \in {Absent, ListVal(<<S_Memorabilia>>), ListVal(<<<<"G", "a", "m", "e", " ", "U", "s", "e", "d">>, <<" ", "M", "e", "m", "o", "r", "a", "b", "i", "l", "i", "a", " ", "C", "a", "r", "d", " ">>>>),
               StrVal(<<"M", "e", "m", "o", "r", "a", "b", "i", "l", "i", "a", " ", "c", "a", "r", "d">>), StrVal(<<"m", "e", "m", "o", "r", "a", "b", "i", "l", "i", "a">>), StrVal(<<"B", "a", "s", "e">>), ListVal(<<>>), ListVal(<<<<" ", " ">>>>)},
        ct \in {Absent, StrVal(<<"5", "5", " ", "P", "t", ".">>), StrVal(<<"n", "o">>)},
        g \in {NoDefaults, BaseDefaults, YesDefaults, RawDefaults},
        e \in {EmptyEnforced, BaseEnforced, LooseEnforced, MalformedEnforced}}

\* Names that are no str, and a Sport that is no str
FaultyInputs ==
    {[card |-> With(ScenarioCard, ("player_first" :> pf) @@ ("player_last" :> pl)
                                  @@ ("player_athlete" :> pa) @@ ("Autographed" :> au)),
      defaults |-> g, enforced |-> e] :
        pf \in {StrVal(S_Jane), IntVal(7), BoolVal(TRUE), NoneVal, StrVal(<<" ", "J", "a", "n", "e", " ">>)},
        pl \in {StrVal(S_Doe), IntVal(9)},
        pa \in {Absent, StrVal(<<"J", ".", " ", "D", "o", "e">>)},
        au \in {Absent, StrVal(<<"Y", "e", "s">>)},
        g \in {NoDefaults, NumberDefaults},
        e \in {EmptyEnforced, BaseEnforced}}

ItemInputs == PrintRunInputs \cup AutographInputs \cup AliasInputs \cup ThicknessInputs \cup FaultyInputs

\* ------------------------------------------------------------ the pipeline

VARIABLES
    card,             \* the card record (read-only)
    globals_defaults, \* global_defaults.json
    enforced,         \* the enforced-requirements document
    pc,               \* where pipeline.main is
    title,            \* build_ebay_title's title
    serial_fmt,       \* what build_ebay_title got from _parse_serial_for_ebay
    dropped,          \* build_ebay_title's dropped groups
    error,            \* the exception that ended the run, if any
    item              \* build_item_specifics' item mapping

vars == <<card, globals_defaults, enforced, pc, title, serial_fmt, dropped, error, item>>

inputs == <<card, globals_defaults, enforced>>

NoItem == [a \in Aspects |-> Absent]

Loaded ==
    /\ pc = "start"
    /\ title = <<>>
    /\ serial_fmt = NoneStr
    /\ dropped = <<>>
    /\ error = NoError
    /\ item = NoItem

\* Title inputs, under the fully configured documents
InitTitle ==
    /\ card \in TitleCards
    /\ globals_defaults = BaseDefaults
    /\ enforced = BaseEnforced
    /\ Loaded

InitSerial ==
    /\ card \in SerialCards
    /\ globals_defaults = BaseDefaults
    /\ enforced = BaseEnforced
    /\ Loaded

InitItem ==
    /\ \E in \in ItemInputs :
          /\ card = in.card
          /\ globals_defaults = in.defaults
          /\ enforced = in.enforced
    /\ Loaded

Init == InitTitle \/ InitSerial \/ InitItem

\* title, dropped = build_ebay_title(card)
BuildEbayTitle ==
    /\ pc = "start"
    /\ LET r == BuildEbayTitleOf(card)
       IN  /\ title' = r.title
           /\ serial_fmt' = SerialParsed(card)
           /\ dropped' = r.dropped
           /\ error' = r.error
           /\ pc' = IF r.raised THEN "failed" ELSE "titled"
    /\ UNCHANGED <<inputs, item>>

\* One layer of build_item_specifics: from pc `from` to pc `to` with result r
Layer(from, to, r) ==
    /\ pc = from
    /\ pc' = IF r.raised # "" THEN "failed" ELSE to
    /\ item' = r.item
    /\ error' = IF r.raised # "" THEN ItemError(r.raised) ELSE error
    /\ UNCHANGED <<inputs, title, serial_fmt, dropped>>

ItemGlobals == Layer("titled", "globals", Item(LayerGlobals(globals_defaults)))

ItemDirect == Layer("globals", "direct", LayerDirect(card, item))

ItemDerive == Layer("direct", "derived", LayerDerive(card, enforced.dae, item, 1))

ItemConditional == Layer("derived", "conditional", LayerConditional(enforced.ca, item))

ItemAutograph == Layer("conditional", "autograph", LayerAutograph(card, enforced.ar, item))

ItemFallback == Layer("autograph", "fallback", Item(LayerFallback(enforced.pvr, enforced.fr, item)))

ItemPrintRun == Layer("fallback", "print_run", LayerPrintRun(card, item))

\* The last layer; build_item_specifics returns item
ItemInsertSet == Layer("print_run", "returned", Item(LayerInsertSet(card, item)))

Next ==
    \/ BuildEbayTitle
    \/ ItemGlobals
    \/ ItemDirect
    \/ ItemDerive
    \/ ItemConditional
    \/ ItemAutograph
    \/ ItemFallback
    \/ ItemPrintRun
    \/ ItemInsertSet

Spec == Init /\ [][Next]_vars

SpecTitle == InitTitle /\ [][Next]_vars

SpecSerial == InitSerial /\ [][Next]_vars

SpecItem == InitItem /\ [][Next]_vars

\* ------------------------------------------------------------ properties of the title

NonEmpty(s) == s # <<>>

\* build_ebay_title returned (title, dropped); build_ebay_title raised
TitleReturned == pc = "titled"
TitleRaised == error.where = "build_ebay_title"

\* The mandatory tokens that are not empty, in order
PresentMandatory == SelectSeq(MandatoryTokens(card), NonEmpty)

\* The optional groups that are non-empty for the card
PresentGroups == {g \in Groups : GroupValues(card)[g] # <<>>}

\* The values, in the order `order`, of the groups of `keep`
RECURSIVE ValuesOf(_, _, _)
ValuesOf(order, keep, gv) ==
    IF order = <<>> THEN <<>>
    ELSE (IF Head(order) \in keep THEN <<gv[Head(order)]>> ELSE <<>>) \o ValuesOf(Tail(order), keep, gv)

\* The inclusion order the specification states
StatedOrder == <<"insert", "parallel", "auto_patch", "serial", "grading_company",
                 "numerical_grade", "team_city", "team_name", "rookie">>

\* The drop priority the specification states
StatedPriority == <<"team_city", "team_name", "numerical_grade", "grading_company",
                    "parallel", "insert", "serial", "auto_patch", "rookie">>

\* The title of the mandatory tokens and the groups of `keep`
TitleWith(keep) == SpaceJoin(PresentMandatory \o ValuesOf(StatedOrder, keep, GroupValues(card)))

\* The groups of the first j entries of a sequence
FirstOf(seq, j) == {seq[i] : i \in 1..j}

\* C1: build_ebay_title returns a title of at most 80 characters or fails with an
\* error; a returned title is never longer than 80 characters and is the
\* space-join of whole mandatory tokens and whole optional group values, never a
\* title cut inside a token.
C1_TitleFitsOrFails ==
    /\ pc # "start" => (TitleRaised /\ title = <<>>) \/ Len(title) <= EBAY_TITLE_MAX
    /\ TitleReturned => \E keep \in SUBSET PresentGroups : title = TitleWith(keep)

\* C1 witness: a title was returned after groups were dropped, and it fills the
\* budget to more than 70 characters.
C1_Witness ==
    /\ TitleReturned
    /\ dropped # <<>>
    /\ Len(title) > 70
    /\ Len(title) <= EBAY_TITLE_MAX

\* The title of the six mandatory tokens alone
MandatoryOnly == SpaceJoin(PresentMandatory)

\* C2: build_ebay_title fails exactly when the title of the six cleaned mandatory
\* tokens alone is longer than 80 characters; then no title is returned and the
\* error carries the offending title and its length; otherwise it succeeds,
\* whatever optional groups the card holds.
C2_FailsExactlyOnMandatoryOverflow ==
    pc # "start" =>
        /\ TitleRaised <=> Len(MandatoryOnly) > EBAY_TITLE_MAX
        /\ TitleRaised =>
              /\ pc = "failed"
              /\ title = <<>>
              /\ dropped = <<>>
              /\ error.kind = "ValueError"
              /\ error.title = MandatoryOnly
              /\ error.len = Len(MandatoryOnly)

\* C2 witness: the run failed on a card that holds optional groups, with the
\* mandatory-only title of 81 characters in the error.
C2_Witness ==
    /\ pc = "failed"
    /\ TitleRaised
    /\ PresentGroups # {}
    /\ error.len = EBAY_TITLE_MAX + 1

\* The stated priority order, filtered to the groups that are non-empty for the card
RECURSIVE FilterTo(_, _)
FilterTo(order, keep) ==
    IF order = <<>> THEN <<>>
    ELSE (IF Head(order) \in keep THEN <<Head(order)>> ELSE <<>>) \o FilterTo(Tail(order), keep)

\* C3: the dropped-groups list is a prefix of the fixed priority order filtered to
\* the groups that were non-empty, in removal order; removal stops as soon as the
\* title fits, so every title before the last removal was longer than 80
\* characters, and the list is empty when the initial title fits.
C3_DroppedIsPriorityPrefix ==
    TitleReturned =>
        /\ Len(dropped) <= Len(FilterTo(StatedPriority, PresentGroups))
        /\ dropped = SubSeq(FilterTo(StatedPriority, PresentGroups), 1, Len(dropped))
        /\ \A j \in 0..(Len(dropped) - 1) :
              Len(TitleWith(PresentGroups \ FirstOf(dropped, j))) > EBAY_TITLE_MAX
        /\ (Len(TitleWith(PresentGroups)) <= EBAY_TITLE_MAX => dropped = <<>>)

\* C3 witness: at least two groups were dropped and a group later in the
\* priority order was kept.
C3_Witness ==
    /\ TitleReturned
    /\ Len(dropped) >= 2
    /\ Len(dropped) < Len(FilterTo(StatedPriority, PresentGroups))

\* No space at either end and no two spaces in a row, and no other whitespace
SingleSpaced(s) ==
    /\ \A i \in DOMAIN s : s[i] \in WS => s[i] = " " /\ i # 1 /\ i # Len(s)
    /\ \A i \in 1..(Len(s) - 1) : ~(s[i] = " " /\ s[i + 1] = " ")

\* C9: the title is the single-space join of the cleaned mandatory tokens in the
\* order year, brand, set name, first name, last name, card number, followed by
\* the values of the optional groups that are non-empty and were not dropped, in
\* the fixed inclusion order; no mandatory token is removed under length
\* pressure, and the title has no leading, trailing or doubled space.
C9_TitleIsOrderedJoin ==
    TitleReturned =>
        /\ title = TitleWith(PresentGroups \ FirstOf(dropped, Len(dropped)))
        /\ SingleSpaced(title)
        /\ SubSeq(title, 1, Len(MandatoryOnly)) = MandatoryOnly

\* C9 witness: groups were dropped and other groups remain in the title after
\* the mandatory tokens.
C9_Witness ==
    /\ TitleReturned
    /\ dropped # <<>>
    /\ Len(title) > Len(MandatoryOnly)

\* ------------------------------------------------------------ properties of the serial formatter

\* The raw serial of the card: its "serial" key, else its "serial_number" key
SerialInput == IF card["serial"] = Absent THEN Get(card, "serial_number") ELSE Get(card, "serial")

\* The positions of t before c, and after c, that hold no whitespace
InkBefore(t, c) == {i \in 1..(c - 1) : t[i] \notin WS}
InkAfter(t, c) == {i \in (c + 1)..Len(t) : t[i] \notin WS}

Max(S) == CHOOSE x \in S : \A y \in S : x >= y

\* A decimal number ends at position b of t; one starts at position k of t
NumberEndsAt(t, b) == b \in DOMAIN t /\ IsDecimal(t[b])
NumberStartsAt(t, k) == k \in DOMAIN t /\ IsDecimal(t[k])

\* The number that ends at position b of t, and the one that starts at position k
NumberEnding(t, b) == SubSeq(t, Min({i \in 1..b : \A j \in i..b : IsDecimal(t[j])}), b)
NumberStarting(t, k) == SubSeq(t, k, Max({i \in k..Len(t) : \A j \in k..i : IsDecimal(t[j])}))

\* The slash at position c of t has a denominator after it, whitespace apart
HasDenominator(t, c) ==
    /\ c \in DOMAIN t
    /\ t[c] = "/"
    /\ InkAfter(t, c) # {}
    /\ NumberStartsAt(t, Min(InkAfter(t, c)))

\* The slash at position c of t has a numerator before it and a denominator after it
HasFraction(t, c) ==
    /\ HasDenominator(t, c)
    /\ InkBefore(t, c) # {}
    /\ NumberEndsAt(t, Max(InkBefore(t, c)))

Numerator(t, c) == ToInt(NumberEnding(t, Max(InkBefore(t, c))))
Denominator(t, c) == ToInt(NumberStarting(t, Min(InkAfter(t, c))))

\* "n/d" when n = 1 or n = d, "/d" otherwise, nothing for a denominator of zero
FractionForm(n, d) ==
    IF d = 0 THEN NoneStr
    ELSE IF n = 1 \/ n = d THEN SomeStr(IntToStr(n) \o <<"/">> \o IntToStr(d))
    ELSE SomeStr(<<"/">> \o IntToStr(d))

\* "/d", nothing for a denominator of zero
DenominatorForm(d) == IF d = 0 THEN NoneStr ELSE SomeStr(<<"/">> \o IntToStr(d))

\* The result stated for a text t without the word "of"
StatedSerial(t, full, bare) ==
    IF full # {} THEN FractionForm(Numerator(t, Min(full)), Denominator(t, Min(full)))
    ELSE DenominatorForm(Denominator(t, Min(bare)))

\* The text holds no letter o, so no word "of"
NoOf(t) == \A i \in DOMAIN t : LowerChar(t[i]) # "o"

\* C4: in the title mode of the serial formatter, an input that contains a full
\* fraction n/d (its leftmost one) gives "n/d" when n = 1 or n = d and "/d"
\* otherwise; an input with only a denominator "/d" gives "/d"; a denominator of
\* zero gives no result.
C4_FractionModeResult ==
    (pc # "start" /\ SerialInput.t = "str" /\ NoOf(SerialInput.s)) =>
        ((\E c \in DOMAIN SerialInput.s : HasDenominator(SerialInput.s, c)) =>
            serial_fmt = StatedSerial(SerialInput.s,
                                      {c \in DOMAIN SerialInput.s : HasFraction(SerialInput.s, c)},
                                      {c \in DOMAIN SerialInput.s : HasDenominator(SerialInput.s, c)}))

\* C4 witness: the serial "99/99" was formatted as "99/99".
C4_Witness ==
    /\ pc # "start"
    /\ SerialInput = StrVal(<<"9", "9", "/", "9", "9">>)
    /\ serial_fmt = SomeStr(<<"9", "9", "/", "9", "9">>)

\* The card's serial is the text "of 10", in any letter case, whitespace around it apart
SerialIsOf10 == SerialInput.t = "str" /\ Lower(Strip(SerialInput.s)) = S_of10

\* The title holds the token `tok` as its last token or before a space
HasToken(tok) ==
    \E i \in DOMAIN title :
        /\ i > 1
        /\ title[i - 1] = " "
        /\ i + Len(tok) - 1 <= Len(title)
        /\ SubSeq(title, i, i + Len(tok) - 1) = tok
        /\ (i + Len(tok) - 1 = Len(title) \/ title[i + Len(tok)] = " ")

ItemReturned == pc = "returned"

\* The bare denominator of the card's serial_number
BareDenominator == SerialDenominatorOnlyNoSlash(Get(card, "serial_number"))

\* C6: for every card whose serial_number yields a non-empty bare denominator,
\* "Print Run" of the mapping build_item_specifics returns equals that
\* denominator, whatever the global defaults, a "Print Run" key of the card, a
\* derive/enforce rule or the autograph maps wrote there ("12/99" with a card
\* Print Run of "50" gives "99").
C6_PrintRunIsDerived ==
    /\ (ItemReturned /\ BareDenominator.raised = "" /\ BareDenominator.s # <<>>) =>
          item["Print Run"] = StrVal(BareDenominator.s)
    /\ (ItemReturned /\ Get(card, "serial_number") = StrVal(<<"1", "2", "/", "9", "9">>)) =>
          item["Print Run"] = StrVal(<<"9", "9">>)

\* C6 witness: the mapping was returned for serial_number "12/99" and a card
\* Print Run of "50", and holds Print Run "99".
C6_Witness ==
    /\ ItemReturned
    /\ Get(card, "serial_number") = StrVal(<<"1", "2", "/", "9", "9">>)
    /\ Get(card, "Print Run") = StrVal(<<"5", "0">>)
    /\ item["Print Run"] = StrVal(<<"9", "9">>)

\* The value says "No": the text "no" in any letter case, whitespace around it apart
SaysNo(v) == v.t = "str" /\ Lower(Strip(v.s)) = S_no

\* Autographed = "No", supplied by the card or, the card holding none, by the
\* global defaults
AutographedIsNo ==
    \/ SaysNo(card["Autographed"])
    \/ card["Autographed"] = Absent /\ SaysNo(card["autographed"])
    \/ card["Autographed"] = Absent /\ card["autographed"] = Absent
          /\ SaysNo(globals_defaults["Autographed"])

\* The enforced rules hold an autograph_rules.Autographed.when_no mapping
WhenNoConfigured == enforced.ar.present /\ enforced.ar.when_no.is_dict

\* C7 as stated: given Autographed = "No" (from the card or the global defaults)
\* and a when_no mapping in the enforced rules, every key of when_no has its
\* configured value in the mapping build_item_specifics returns, whatever
\* autograph fields the card holds.
C7_WhenNoApplied ==
    (ItemReturned /\ AutographedIsNo /\ WhenNoConfigured) =>
        \A i \in DOMAIN enforced.ar.when_no.entries :
            item[enforced.ar.when_no.entries[i].k] = enforced.ar.when_no.entries[i].v

\* The literals the Normalizer is stated to keep out of every output
StatedPlaceholders == {<<"f", "a", "l", "s", "e">>, <<"n", "o">>, <<"n", "o", "n", "e">>, <<"n", "/", "a">>}

\* The title holds, as one of its tokens, the literal p in some letter case
TitleHolds(p) ==
    \E i \in DOMAIN title :
        /\ i = 1 \/ title[i - 1] = " "
        /\ i + Len(p) - 1 <= Len(title)
        /\ Lower(SubSeq(title, i, i + Len(p) - 1)) = p
        /\ (i + Len(p) - 1 = Len(title) \/ title[i + Len(p)] = " ")

\* C8 as stated: every string value build_item_specifics places in the mapping
\* and every token build_ebay_title uses has passed the Normalizer: for any card
\* (null or boolean keys included) and any global defaults, no raw boolean and no
\* literal "false", "no", "none" or "n/a", in any letter case, is an output value
\* or a title token.
C8_NoPlaceholderInOutput ==
    /\ TitleReturned => \A p \in StatedPlaceholders : ~TitleHolds(p)
    /\ ItemReturned =>
          \A a \in Aspects :
              /\ item[a].t # "bool"
              /\ item[a].t = "str" => Lower(item[a].s) \notin StatedPlaceholders

\* The candidate card keys of the aliased fields of the direct mapping, left to right
AliasKeys ==
    [a \in {"Manufacturer", "Set", "Team", "Insert Set", "Professional Grader", "Grade", "Sport"} |->
        CASE a = "Manufacturer" -> <<"Manufacturer", "brand">>
          [] a = "Set" -> <<"Set", "set", "set_name">>
          [] a = "Team" -> <<"Team", "team_name", "team">>
          [] a = "Insert Set" -> <<"Insert Set", "insert_set", "insert">>
          [] a = "Professional Grader" -> <<"Professional Grader", "grading_company", "grader">>
          [] a = "Grade" -> <<"Grade", "grade", "numerical_grade">>
          [] a = "Sport" -> <<"Sport", "sport">>]

\* The candidates of `keys` whose value the Normalizer does not map to ""
NonEmptyCandidates(keys) == {i \in DOMAIN keys : NormOptional(Get(card, keys[i])) # <<>>}

\* C10 as stated: in the direct-mapping layer each field with an alias list is
\* set to the value of the first candidate key, left to right, whose value the
\* Normalizer does not map to ""; a placeholder in an earlier alias never keeps a
\* later alias that holds a real value from being used.
C10_FirstNonEmptyAlias ==
    pc = "direct" =>
        \A a \in DOMAIN AliasKeys :
            NonEmptyCandidates(AliasKeys[a]) # {} =>
                item[a] = StrVal(NormOptional(Get(card, AliasKeys[a][Min(NonEmptyCandidates(AliasKeys[a]))])))

\* The text holds the substring "Memorabilia"
HoldsMemorabilia(s) ==
    \E i \in 1..(Len(s) - Len(S_Memorabilia) + 1) :
        SubSeq(s, i, i + Len(S_Memorabilia) - 1) = S_Memorabilia

\* The Features value, a list or a string, holds the substring "Memorabilia"
FeaturesHoldMemorabilia(v) ==
    \/ v.t = "str" /\ HoldsMemorabilia(v.s)
    \/ v.t = "list" /\ \E i \in DOMAIN v.l : HoldsMemorabilia(v.l[i])

\* The enforced rules hold a "Card Thickness" conditional entry
ThicknessConfigured == enforced.ca.is_dict /\ enforced.ca.thickness.present

\* C11: when the enforced rules hold a "Card Thickness" conditional entry and the
\* "Features" value held at the conditional layer, a list or a string, contains
\* the substring "Memorabilia", "Card Thickness" is the empty string after the
\* conditional layer, whether its earlier value came from the global defaults,
\* the card or the configured default applied just before: the override comes
\* after the default and wins over it.
C11_MemorabiliaBlanksThickness ==
    (pc = "conditional" /\ ThicknessConfigured /\ FeaturesHoldMemorabilia(item["Features"])) =>
        item["Card Thickness"] = EmptyStr

\* C11 witness: the conditional layer ran on Memorabilia features with a
\* configured default and no Card Thickness from the card or the global
\* defaults, and left Card Thickness empty.
C11_Witness ==
    /\ pc = "conditional"
    /\ ThicknessConfigured
    /\ NormOptional(enforced.ca.thickness.default) # <<>>
    /\ card["Card Thickness"] = Absent
    /\ globals_defaults["Card Thickness"] = Absent
    /\ FeaturesHoldMemorabilia(item["Features"])
    /\ item["Card Thickness"] = EmptyStr

\* The normalized Autographed value of the mapping is "yes", in any letter case
AutographedIsYes == Lower(NormOptional(Get(item, "Autographed"))) = S_yes

\* The enforced rules hold an autograph_rules.Autographed.when_yes mapping
WhenYesConfigured == enforced.ar.present /\ enforced.ar.when_yes.is_dict

\* A non-empty allow-list is configured for "Autograph Format"
AllowListConfigured ==
    enforced.ar.when_yes.format.present /\ enforced.ar.when_yes.format.allowed # <<>>

\* The members of the allow-list
AllowList == {enforced.ar.when_yes.format.allowed[i] : i \in DOMAIN enforced.ar.when_yes.format.allowed}

PositiveDecimal(s) == s # <<>> /\ (\A i \in DOMAIN s : IsDecimal(s[i])) /\ ToInt(s) > 0

\* The serial_number of the card is a text whose last slash is followed by a
\* denominator of zero
ZeroDenominator ==
    /\ Get(card, "serial_number").t = "str"
    /\ \E c \in DOMAIN Get(card, "serial_number").s :
          /\ Get(card, "serial_number").s[c] = "/"
          /\ \A j \in (c + 1)..Len(Get(card, "serial_number").s) : Get(card, "serial_number").s[j] = "0"
          /\ c < Len(Get(card, "serial_number").s)

\* C13 as stated: in the bare-denominator mode the result is, for every input,
\* either absent or the decimal text of a positive integer denominator with no
\* slash; a non-positive denominator ("12/0") or any other pattern gives no
\* result, and no input raises an error, so build_item_specifics never writes a
\* Print Run of zero and never fails with a ValueError.
C13_BareDenominatorPositiveOrAbsent ==
    pc # "start" =>
        /\ BareDenominator.raised = ""
        /\ BareDenominator.s = <<>> \/ PositiveDecimal(BareDenominator.s)
        /\ ZeroDenominator => BareDenominator.s = <<>>
        /\ (ItemReturned /\ ZeroDenominator) => item["Print Run"] # StrVal(<<"0">>)
        /\ ~(error.where = "build_item_specifics" /\ error.kind = "ValueError")

====
